---- MODULE Spec2Model ----
(***************************************************************************)
(* Model of scripts/kafkacheck.py: one run of main() over a directory of   *)
(* Kafka export files.  File discovery, per-file record extraction         *)
(* (process_file), the uniqueness check, the grand total, and the          *)
(* breakdown by cost unit are each one step of the run.                    *)
(*                                                                         *)
(* JSON values are tagged records.  Strings are sequences of one-character *)
(* strings, so that lower(), substring search, ordering and float() work   *)
(* on the characters.  A double is modelled by a binary float with a       *)
(* MantBits-bit significand and round-half-to-even, restricted to          *)
(* non-negative whole numbers; IEEE double has 53 significand bits.        *)
(***************************************************************************)
EXTENDS Integers, Sequences, FiniteSets, TLC

VARIABLES
    argv_ok,        \* len(sys.argv) >= 3
    dir_exists,     \* directory.is_dir()
    file_pattern,   \* sys.argv[2]
    dir,            \* the directory: entry name -> entry
    host_locales,   \* the locales installed on the host
    pc,             \* position of main()
    all_files,      \* names of the matched files
    next_file,      \* index of the next file of the processing loop
    file_path,      \* loop variable of the processing loop (last file)
    rows,           \* value returned by the last process_file call
    all_rows,       \* the concatenated rows
    grand_total_cost,
    per_cost_unit,            \* unit -> summed cost
    item_count_per_cost_unit, \* unit -> item count
    unit_keys,      \* keys of per_cost_unit in insertion order
    sorted_units,
    lc_all,         \* the process-wide locale
    out,            \* the lines printed so far
    exit_status     \* process exit status; NotExited while running

vars == <<argv_ok, dir_exists, file_pattern, dir, host_locales, pc, all_files,
          next_file, file_path, rows, all_rows, grand_total_cost,
          per_cost_unit, item_count_per_cost_unit, unit_keys, sorted_units,
          lc_all, out, exit_status>>

\* ---------------------------------------------------------------- bounds

\* Significand bits of the modelled float.
MantBits == 3

\* Longest data list of one file in the row-variety inputs.
MaxRows == 2

\* Most entries of a directory in the name-variety inputs.
MaxEntries == 3

\* ------------------------------------------------------------ JSON values

JNull == [t |-> "null"]

JNum(n) == [t |-> "num", n |-> n]

JStr(s) == [t |-> "str", s |-> s]

JList(l) == [t |-> "list", items |-> l]

JObj(f) == [t |-> "obj", fields |-> f]

EmptyList == JList(<<>>)

\* A JSON text: either something json.load(s) rejects, or a document.
BadText == [valid |-> FALSE]

TextOf(v) == [valid |-> TRUE, doc |-> v]

\* A directory entry: a sub-directory, or a regular file.
SubDir == [isfile |-> FALSE]

Unreadable == [isfile |-> TRUE, readable |-> FALSE]

FileOf(text) == [isfile |-> TRUE, readable |-> TRUE, text |-> text]

\* Python truthiness of a decoded JSON value.
Truthy(v) ==
    CASE v.t = "null" -> FALSE
      [] v.t = "num"  -> v.n # 0
      [] v.t = "str"  -> v.s # <<>>
      [] v.t = "list" -> v.items # <<>>
      [] v.t = "obj"  -> DOMAIN v.fields # {}

\* dict.get(key, default) on a decoded JSON object.
Get(obj, key, default) ==
    IF key \in DOMAIN obj.fields THEN obj.fields[key] ELSE default

\* ---------------------------------------------------------------- strings

Chars == {"A", "B", "a", "b", "x", "1"}

\* Unicode code points of the characters used in file names.
Ord == [c \in Chars |->
          CASE c = "1" -> 49 [] c = "A" -> 65 [] c = "B" -> 66
            [] c = "a" -> 97 [] c = "b" -> 98 [] c = "x" -> 120]

\* str.lower() on one character.
LowerChar == [c \in Chars |->
          CASE c = "A" -> "a" [] c = "B" -> "b" [] OTHER -> c]

\* str.lower()
Lower(s) == [i \in 1..Len(s) |-> LowerChar[s[i]]]

\* sub in s
Contains(sub, s) ==
    \E i \in 0..(Len(s) - Len(sub)) : SubSeq(s, i + 1, i + Len(sub)) = sub

\* s < t for Python strings: lexicographic by code point.
StrLess(s, t) ==
    \E i \in 1..(Len(s) + 1) :
        /\ i <= Len(t)
        /\ \A j \in 1..(i - 1) : s[j] = t[j]
        /\ (i = Len(s) + 1 \/ Ord[s[i]] < Ord[t[i]])

\* ----------------------------------------------------------------- floats

RECURSIVE Pow2(_)
Pow2(n) == IF n = 0 THEN 1 ELSE 2 * Pow2(n - 1)

\* Smallest power of two u such that n \div u needs at most MantBits bits.
RECURSIVE Ulp(_, _)
Ulp(n, u) == IF n \div u < Pow2(MantBits) THEN u ELSE Ulp(n, 2 * u)

\* Round a non-negative whole number to the nearest float, ties to even.
RoundFloat(n) ==
    LET u == Ulp(n, 1)
        q == n \div u
        r == n % u
    IN  IF 2 * r > u \/ (2 * r = u /\ q % 2 = 1) THEN (q + 1) * u ELSE q * u

\* a + b on floats.
FAdd(a, b) == RoundFloat(a + b)

\* -------------------------------------------------------- process_file

\* The lines process_file prints, each with the file name.
ErrProcessing(name) == <<"Error processing", name>>

ErrInnerJson(name) == <<"Error: Could not parse inner JSON", name>>

WarnNoValue(name) == <<"Warning: 'Value' field not found", name>>

WarnNoInnerRows(name) == <<"Warning: No data rows found in inner JSON", name>>

WarnNoDirectRows(name) == <<"Warning: No data rows found directly", name>>

\* process_file that falls back to the outer data field when the decoded
\* Value has none.
process_file_fallback(name, f) ==
    IF ~f.readable \/ ~f.text.valid \/ f.text.doc.t # "obj"
    THEN [rows |-> EmptyList, msgs |-> <<ErrProcessing(name)>>]
    ELSE
    LET kafka_message == f.text.doc
        outer == Get(kafka_message, "data", EmptyList)
    IN
    IF /\ "Value" \in DOMAIN kafka_message.fields
       /\ kafka_message.fields["Value"].t = "str"
    THEN
        LET value == kafka_message.fields["Value"].s IN
        IF ~value.valid
        THEN [rows |-> EmptyList, msgs |-> <<ErrInnerJson(name)>>]
        ELSE IF value.doc.t # "obj"
        THEN [rows |-> EmptyList, msgs |-> <<ErrProcessing(name)>>]
        ELSE
        LET r == Get(value.doc, "data", outer) IN
        [rows |-> r,
         msgs |-> IF ~Truthy(r) THEN <<WarnNoInnerRows(name)>> ELSE <<>>]
    ELSE
        [rows |-> outer,
         msgs |-> <<WarnNoValue(name)>> \o
                  (IF ~Truthy(outer) THEN <<WarnNoDirectRows(name)>> ELSE <<>>)]

\* What process_file returns and prints for the file `name` with entry f.
\* Every exception other than the inner JSONDecodeError reaches the outer
\* `except Exception`: an unreadable file, a malformed document, a document
\* that is not an object (its `in`, `[]` or `.get` raises), and an inner
\* document that is not an object (its `.get` raises AttributeError).
process_file(name, f) ==
    IF ~f.readable \/ ~f.text.valid \/ f.text.doc.t # "obj"
    THEN [rows |-> EmptyList, msgs |-> <<ErrProcessing(name)>>]
    ELSE
    LET kafka_message == f.text.doc IN
    IF /\ "Value" \in DOMAIN kafka_message.fields
       /\ kafka_message.fields["Value"].t = "str"
    THEN
        LET value == kafka_message.fields["Value"].s IN
        IF ~value.valid
        THEN [rows |-> EmptyList, msgs |-> <<ErrInnerJson(name)>>]
        ELSE
        LET inner_payload == value.doc IN
        IF inner_payload.t # "obj"
        THEN [rows |-> EmptyList, msgs |-> <<ErrProcessing(name)>>]
        ELSE
        LET r == Get(inner_payload, "data", EmptyList) IN
        [rows |-> r,
         msgs |-> IF ~Truthy(r) THEN <<WarnNoInnerRows(name)>> ELSE <<>>]
    ELSE
        LET r == Get(kafka_message, "data", EmptyList) IN
        [rows |-> r,
         msgs |-> <<WarnNoValue(name)>> \o
                  (IF ~Truthy(r) THEN <<WarnNoDirectRows(name)>> ELSE <<>>)]

\* ----------------------------------------------------------- discovery

\* The orders in which directory.iterdir() can enumerate the entries.
Listings(S) ==
    {l \in [1..Cardinality(S) -> S] :
        \A i, j \in 1..Cardinality(S) : i # j => l[i] # l[j]}

\* MatchingFiles without lower() on the file name.
RECURSIVE MatchingFilesCaseSensitive(_, _, _)
MatchingFilesCaseSensitive(listing, d, pattern) ==
    IF listing = <<>> THEN <<>>
    ELSE LET item == Head(listing)
             rest == MatchingFilesCaseSensitive(Tail(listing), d, pattern)
         IN  IF d[item].isfile /\ Contains(Lower(pattern), item)
             THEN <<item>> \o rest
             ELSE rest

\* The loop of lines 65-68 over one enumeration order.
RECURSIVE MatchingFiles(_, _, _)
MatchingFiles(listing, d, pattern) ==
    IF listing = <<>> THEN <<>>
    ELSE LET item == Head(listing)
             rest == MatchingFiles(Tail(listing), d, pattern)
         IN  IF d[item].isfile /\ Contains(Lower(pattern), Lower(item))
             THEN <<item>> \o rest
             ELSE rest

\* Insert x into a list sorted by name, after every element not above it.
RECURSIVE InsertByName(_, _)
InsertByName(sorted, x) ==
    IF sorted = <<>> THEN <<x>>
    ELSE IF StrLess(x, Head(sorted)) THEN <<x>> \o sorted
    ELSE <<Head(sorted)>> \o InsertByName(Tail(sorted), x)

\* all_files.sort(key=lambda f: f.name): a stable sort by name.
RECURSIVE SortByName(_)
SortByName(files) ==
    IF files = <<>> THEN <<>>
    ELSE InsertByName(SortByName(SubSeq(files, 1, Len(files) - 1)),
                      files[Len(files)])

\* ------------------------------------------------------------- main

NotExited == -1

Running(p) == pc = p /\ exit_status = NotExited

\* sys.exit(message): the message goes to stderr, the status is 1.
SysExit(msg) ==
    /\ pc' = "exit"
    /\ exit_status' = 1
    /\ out' = out \o <<msg>>

\* An uncaught exception: the traceback is printed, the status is 1.
Crash(lines, err) ==
    /\ pc' = "exit"
    /\ exit_status' = 1
    /\ out' = out \o lines \o <<<<"Traceback", err>>>>

\* Lines 52-57.
CheckArgs ==
    /\ Running("args")
    /\ IF ~argv_ok
       THEN /\ pc' = "exit"
            /\ exit_status' = 1
            /\ out' = out \o <<<<"ERROR: Missing arguments.", "">>,
                               <<"usage", "">>>>
       ELSE /\ pc' = "checkdir"
            /\ UNCHANGED <<out, exit_status>>
    /\ UNCHANGED <<argv_ok, dir_exists, file_pattern, dir, host_locales,
                   all_files, next_file, file_path, rows, all_rows,
                   grand_total_cost, per_cost_unit, item_count_per_cost_unit,
                   unit_keys, sorted_units, lc_all>>

\* Lines 59-60.
CheckDir ==
    /\ Running("checkdir")
    /\ IF ~dir_exists
       THEN SysExit(<<"Error: Directory not found", "">>)
       ELSE /\ pc' = "discover"
            /\ UNCHANGED <<out, exit_status>>
    /\ UNCHANGED <<argv_ok, dir_exists, file_pattern, dir, host_locales,
                   all_files, next_file, file_path, rows, all_rows,
                   grand_total_cost, per_cost_unit, item_count_per_cost_unit,
                   unit_keys, sorted_units, lc_all>>

\* The lines printed for the file list (lines 73-77).
FileListLines(files) ==
    <<<<"Found files", Len(files)>>>> \o
    [i \in 1..Len(files) |-> <<"-", files[i]>>]

\* DiscoverFiles without the sort of line 75.
DiscoverFilesUnsorted(listing, d, pattern) ==
    MatchingFiles(listing, d, pattern)

\* What lines 62-77 leave in all_files for one enumeration order.
DiscoverFiles(listing, d, pattern) ==
    SortByName(MatchingFiles(listing, d, pattern))

\* The lines printed by lines 64-77 when `found` is the sorted file list.
DiscoverLines(found, pattern) ==
    IF found = <<>>
    THEN <<<<"Searching", pattern>>, <<"No files matching pattern", "">>>>
    ELSE <<<<"Searching", pattern>>>> \o FileListLines(found)

\* Lines 62-77: enumerate, filter, stop if nothing matched, sort, print.
Discover ==
    /\ Running("discover")
    /\ \E listing \in Listings(DOMAIN dir) :
        LET found == DiscoverFiles(listing, dir, file_pattern) IN
        /\ all_files' = found
        /\ out' = out \o DiscoverLines(found, file_pattern)
        /\ IF found = <<>>
           THEN pc' = "exit" /\ exit_status' = 1
           ELSE pc' = "process" /\ exit_status' = exit_status
    /\ UNCHANGED <<argv_ok, dir_exists, file_pattern, dir, host_locales,
                   next_file, file_path, rows, all_rows,
                   grand_total_cost, per_cost_unit, item_count_per_cost_unit,
                   unit_keys, sorted_units, lc_all>>

\* The iteration all_rows.extend(rows) makes over rows.  A list gives its
\* items and a string its characters; iterating a dict gives its keys.
Iterable(v) == v.t \in {"list", "str", "obj"}

Items(v) ==
    CASE v.t = "list" -> v.items
      [] v.t = "str"  -> [i \in 1..Len(v.s) |-> JStr(<<v.s[i]>>)]
      [] v.t = "obj"  ->
            LET K == DOMAIN v.fields
                order == CHOOSE l \in Listings(K) : TRUE
            IN  [i \in 1..Cardinality(K) |-> JStr(<<order[i]>>)]

\* len(rows), defined where Iterable(rows).
LenOf(v) == Len(Items(v))

\* One iteration of the loop of lines 81-85.
ProcessFile ==
    /\ Running("process")
    /\ next_file <= Len(all_files)
    /\ LET name == all_files[next_file]
           res == process_file(name, dir[name])
           printed == <<<<"Processing", name>>>> \o res.msgs
       IN  /\ file_path' = name
           /\ rows' = res.rows
           /\ IF ~Iterable(res.rows)
              THEN /\ Crash(printed, "TypeError")
                   /\ UNCHANGED <<all_rows, next_file>>
              ELSE /\ all_rows' = all_rows \o Items(res.rows)
                   /\ next_file' = next_file + 1
                   /\ out' = out \o printed \o
                             <<<<"Found cost items", LenOf(res.rows)>>>>
                   /\ UNCHANGED <<pc, exit_status>>
    /\ UNCHANGED <<argv_ok, dir_exists, file_pattern, dir, host_locales,
                   all_files, grand_total_cost, per_cost_unit,
                   item_count_per_cost_unit, unit_keys, sorted_units, lc_all>>

\* CheckRows without the exit on an empty all_rows.
CheckRowsNoExit ==
    /\ Running("process")
    /\ next_file > Len(all_files)
    /\ pc' = "unique"
    /\ out' = out \o <<<<"Total cost items", Len(all_rows)>>>>
    /\ UNCHANGED <<argv_ok, dir_exists, file_pattern, dir, host_locales,
                   all_files, next_file, file_path, rows, all_rows,
                   grand_total_cost, per_cost_unit, item_count_per_cost_unit,
                   unit_keys, sorted_units, lc_all, exit_status>>

\* Lines 87-90, after the last file.
CheckRows ==
    /\ Running("process")
    /\ next_file > Len(all_files)
    /\ IF all_rows = <<>>
       THEN /\ pc' = "exit"
            /\ exit_status' = 1
            /\ out' = out \o <<<<"Total cost items", 0>>,
                               <<"No cost items found", "">>>>
       ELSE /\ pc' = "unique"
            /\ out' = out \o <<<<"Total cost items", Len(all_rows)>>>>
            /\ UNCHANGED exit_status
    /\ UNCHANGED <<argv_ok, dir_exists, file_pattern, dir, host_locales,
                   all_files, next_file, file_path, rows, all_rows,
                   grand_total_cost, per_cost_unit, item_count_per_cost_unit,
                   unit_keys, sorted_units, lc_all>>

\* ------------------------------------------------------ uniqueness check

\* The cap of line 104 on the duplicates printed one by one.
DupCap == 5

\* Whether a value can be a member of a set or a key of a dict.
Hashable(v) == v.t \notin {"list", "obj"}

\* IdsOf that keeps every identifier that is present, falsy or not.
RECURSIVE IdsOfPresent(_)
IdsOfPresent(rs) ==
    IF rs = <<>> THEN <<>>
    ELSE (IF "id" \in DOMAIN Head(rs).fields
          THEN <<Head(rs).fields["id"]>> ELSE <<>>) \o IdsOfPresent(Tail(rs))

\* [row.get("id") for row in all_rows if row.get("id")]
RECURSIVE IdsOf(_)
IdsOf(rs) ==
    IF rs = <<>> THEN <<>>
    ELSE LET id == Get(Head(rs), "id", JNull)
         IN  (IF Truthy(id) THEN <<id>> ELSE <<>>) \o IdsOf(Tail(rs))

\* set(seq)
SetOf(seq) == {seq[i] : i \in 1..Len(seq)}

\* Counter(seq)[x]
CountOf(x, seq) == Cardinality({i \in 1..Len(seq) : seq[i] = x})

\* The keys of Counter(seq), in the order of their first occurrence.
RECURSIVE FirstSeen(_)
FirstSeen(seq) ==
    IF seq = <<>> THEN <<>>
    ELSE LET init == FirstSeen(SubSeq(seq, 1, Len(seq) - 1))
             x == seq[Len(seq)]
         IN  IF x \in SetOf(init) THEN init ELSE init \o <<x>>

\* {id: count for id, count in id_counts.items() if count > 1}, as a list
\* in dict order.
Duplicates(all_ids) ==
    SelectSeq(FirstSeen(all_ids), LAMBDA x : CountOf(x, all_ids) > 1)

\* The lines of the loop of lines 103-107.
DuplicateLines(duplicates, all_ids) ==
    [i \in 1..(IF Len(duplicates) > DupCap THEN DupCap ELSE Len(duplicates))
        |-> <<"ID appears", <<duplicates[i], CountOf(duplicates[i], all_ids)>>>>]
    \o (IF Len(duplicates) > DupCap
        THEN <<<<"and more", Len(duplicates) - DupCap>>>>
        ELSE <<>>)

\* The lines of the uniqueness section (lines 94-110).
UniquenessLines(rs) ==
    LET all_ids == IdsOf(rs)
        duplicates == Duplicates(all_ids)
    IN  <<<<"=== ID UNIQUENESS CHECK ===", "">>>> \o
        (IF Len(all_ids) # Cardinality(SetOf(all_ids))
         THEN <<<<"Found duplicate IDs!", "">>,
                <<"Total items", Len(rs)>>,
                <<"Total unique IDs", Cardinality(SetOf(all_ids))>>,
                <<"Number of duplicate IDs", Len(duplicates)>>>> \o
              DuplicateLines(duplicates, all_ids)
         ELSE <<<<"All IDs are unique.", "">>,
                <<"Total items processed", Len(rs)>>>>)

\* Lines 92-110.  row.get on a row that is not a mapping raises
\* AttributeError; set() over an unhashable identifier raises TypeError.
UniquenessCheck ==
    /\ Running("unique")
    /\ IF \E i \in 1..Len(all_rows) : all_rows[i].t # "obj"
       THEN Crash(<<>>, "AttributeError")
       ELSE IF \E i \in 1..Len(IdsOf(all_rows)) : ~Hashable(IdsOf(all_rows)[i])
       THEN Crash(<<<<"=== ID UNIQUENESS CHECK ===", "">>>>, "TypeError")
       ELSE /\ pc' = "total"
            /\ out' = out \o UniquenessLines(all_rows)
            /\ UNCHANGED exit_status
    /\ UNCHANGED <<argv_ok, dir_exists, file_pattern, dir, host_locales,
                   all_files, next_file, file_path, rows, all_rows,
                   grand_total_cost, per_cost_unit, item_count_per_cost_unit,
                   unit_keys, sorted_units, lc_all>>

\* ------------------------------------------------------------ grand total

\* The float a JSON number converts to.
ToFloat(n) == RoundFloat(n)

\* SumCosts with a default of 1 for a missing cost field.
RECURSIVE SumCostsDefaultOne(_, _)
SumCostsDefaultOne(acc, rs) ==
    IF rs = <<>> THEN acc
    ELSE SumCostsDefaultOne(
            FAdd(acc, ToFloat(Get(Head(rs), "cost", JNum(1)).n)), Tail(rs))

\* The loop of lines 114-116 from the accumulator acc: each row's cost, or
\* 0.0 where the field is absent, is added in row order.
RECURSIVE SumCosts(_, _)
SumCosts(acc, rs) ==
    IF rs = <<>> THEN acc
    ELSE SumCosts(FAdd(acc, ToFloat(Get(Head(rs), "cost", JNum(0)).n)),
                  Tail(rs))

\* Lines 113-116.  float + a value that is not a number raises TypeError.
GrandTotal ==
    /\ Running("total")
    /\ IF \E i \in 1..Len(all_rows) :
            Get(all_rows[i], "cost", JNum(0)).t # "num"
       THEN /\ Crash(<<>>, "TypeError")
            /\ UNCHANGED grand_total_cost
       ELSE /\ grand_total_cost' = SumCosts(0, all_rows)
            /\ pc' = "report"
            /\ UNCHANGED <<out, exit_status>>
    /\ UNCHANGED <<argv_ok, dir_exists, file_pattern, dir, host_locales,
                   all_files, next_file, file_path, rows, all_rows,
                   per_cost_unit, item_count_per_cost_unit,
                   unit_keys, sorted_units, lc_all>>

\* The locale lines 119-129 select, and the warning they print.
SelectLocale(installed) ==
    IF "de_DE.UTF-8" \in installed
    THEN [name |-> "de_DE.UTF-8", msgs |-> <<>>]
    ELSE IF "en_US.UTF-8" \in installed
    THEN [name |-> "en_US.UTF-8",
          msgs |-> <<<<"Warning: Locale 'de_DE.UTF-8' not available", "">>>>]
    ELSE [name |-> "",
          msgs |-> <<<<"Warning: Could not set German or US locale", "">>>>]

\* The digits of n in groups of three, most significant group first.
RECURSIVE Groups(_)
Groups(n) == IF n < 1000 THEN <<n>> ELSE Groups(n \div 1000) \o <<n % 1000>>

\* locale.format_string("%.2f", v, grouping=True) for a whole number v:
\* the groups of the integer part, the separators of the locale, and two
\* decimal digits.  The default locale is taken to be the C locale, which
\* has no grouping.
FormatCost(loc, v) ==
    CASE loc = "de_DE.UTF-8" ->
            [groups |-> Groups(v), sep |-> ".", point |-> ",", frac |-> <<0, 0>>]
      [] loc = "en_US.UTF-8" ->
            [groups |-> Groups(v), sep |-> ",", point |-> ".", frac |-> <<0, 0>>]
      [] OTHER ->
            [groups |-> <<v>>, sep |-> "", point |-> ".", frac |-> <<0, 0>>]

\* Lines 118-134.
ReportTotal ==
    /\ Running("report")
    /\ LET sel == SelectLocale(host_locales) IN
        /\ lc_all' = sel.name
        /\ out' = out \o sel.msgs \o
                  <<<<"=== GRAND TOTAL COST ACROSS ALL FILES ===", "">>,
                    <<"Total Cost: CHF", FormatCost(sel.name, grand_total_cost)>>>>
    /\ pc' = "breakdown"
    /\ UNCHANGED <<argv_ok, dir_exists, file_pattern, dir, host_locales,
                   all_files, next_file, file_path, rows, all_rows,
                   grand_total_cost, per_cost_unit, item_count_per_cost_unit,
                   unit_keys, sorted_units, exit_status>>

\* -------------------------------------------------------------- breakdown

Unknown == JStr(<<"U", "N", "K", "N", "O", "W", "N">>)

\* row.get("cost_unit", "UNKNOWN")
UnitOf(row) == Get(row, "cost_unit", Unknown)

\* Accumulate with `=` in place of `+=` on the bucket total.
RECURSIVE AccumulateOverwrite(_, _)
AccumulateOverwrite(acc, rs) ==
    IF rs = <<>> THEN acc
    ELSE
    LET unit == Get(Head(rs), "cost_unit", JStr(<<"U", "N", "K", "N", "O", "W", "N">>))
        cost == ToFloat(Get(Head(rs), "cost", JNum(0)).n)
        seen == unit \in DOMAIN acc.totals
        oldn == IF seen THEN acc.counts[unit] ELSE 0
    IN  AccumulateOverwrite(
            [totals |-> [u \in DOMAIN acc.totals \cup {unit} |->
                            IF u = unit THEN cost ELSE acc.totals[u]],
             counts |-> [u \in DOMAIN acc.counts \cup {unit} |->
                            IF u = unit THEN oldn + 1 ELSE acc.counts[u]],
             keys   |-> IF seen THEN acc.keys ELSE acc.keys \o <<unit>>],
            Tail(rs))

\* The loop of lines 139-143 over rs, from the accumulators in acc:
\* totals and counts are the two defaultdicts, keys their insertion order.
RECURSIVE Accumulate(_, _)
Accumulate(acc, rs) ==
    IF rs = <<>> THEN acc
    ELSE
    LET unit == UnitOf(Head(rs))
        cost == ToFloat(Get(Head(rs), "cost", JNum(0)).n)
        seen == unit \in DOMAIN acc.totals
        old  == IF seen THEN acc.totals[unit] ELSE 0
        oldn == IF seen THEN acc.counts[unit] ELSE 0
    IN  Accumulate(
            [totals |-> [u \in DOMAIN acc.totals \cup {unit} |->
                            IF u = unit THEN FAdd(old, cost) ELSE acc.totals[u]],
             counts |-> [u \in DOMAIN acc.counts \cup {unit} |->
                            IF u = unit THEN oldn + 1 ELSE acc.counts[u]],
             keys   |-> IF seen THEN acc.keys ELSE acc.keys \o <<unit>>],
            Tail(rs))

EmptyAcc == [totals |-> <<>>, counts |-> <<>>, keys |-> <<>>]

DigitVal == [c \in {"0", "1", "2", "3", "4", "5", "6", "7", "8", "9"} |->
    CASE c = "0" -> 0 [] c = "1" -> 1 [] c = "2" -> 2 [] c = "3" -> 3
      [] c = "4" -> 4 [] c = "5" -> 5 [] c = "6" -> 6 [] c = "7" -> 7
      [] c = "8" -> 8 [] c = "9" -> 9]

\* The whole number a string of decimal digits denotes.
RECURSIVE Decimal(_)
Decimal(s) ==
    IF s = <<>> THEN 0
    ELSE 10 * Decimal(SubSeq(s, 1, Len(s) - 1)) + DigitVal[s[Len(s)]]

\* A sort key: a finite float, or float('inf').
Finite(v) == [inf |-> FALSE, val |-> v]

Infinity == [inf |-> TRUE, val |-> 0]

\* a < b on sort keys.
KeyLess(a, b) == ~a.inf /\ (b.inf \/ a.val < b.val)

\* float(x) for a cost unit: the key it parses to, or no key where float()
\* raises.  A string of decimal digits is its value and "inf" or "infinity"
\* in any letter case is infinity; every other string of the model raises
\* ValueError, and null, a list or an object raises TypeError.
float_of(x) ==
    CASE x.t = "num" -> [ok |-> TRUE, key |-> Finite(ToFloat(x.n))]
      [] x.t = "str" ->
            IF x.s # <<>> /\ \A i \in 1..Len(x.s) : x.s[i] \in DOMAIN DigitVal
            THEN [ok |-> TRUE, key |-> Finite(ToFloat(Decimal(x.s)))]
            ELSE IF x.s \in {<<"i", "n", "f">>, <<"I", "N", "F">>,
                             <<"i", "n", "f", "i", "n", "i", "t", "y">>}
            THEN [ok |-> TRUE, key |-> Infinity]
            ELSE [ok |-> FALSE]
      [] OTHER -> [ok |-> FALSE]

\* sort_key (lines 147-151): the parsed value, or float('inf') on error.
sort_key(unit_key) ==
    IF float_of(unit_key).ok THEN float_of(unit_key).key ELSE Infinity

\* Insert x into a list sorted by key, after every element not above it.
RECURSIVE InsertByKey(_, _)
InsertByKey(sorted, x) ==
    IF sorted = <<>> THEN <<x>>
    ELSE IF KeyLess(sort_key(x), sort_key(Head(sorted))) THEN <<x>> \o sorted
    ELSE <<Head(sorted)>> \o InsertByKey(Tail(sorted), x)

\* sorted(per_cost_unit.keys(), key=sort_key): a stable sort by key of the
\* keys in insertion order.
RECURSIVE SortUnits(_)
SortUnits(keys) ==
    IF keys = <<>> THEN <<>>
    ELSE InsertByKey(SortUnits(SubSeq(keys, 1, Len(keys) - 1)),
                     keys[Len(keys)])

\* The lines of the loop of lines 155-160.
BreakdownLines(units, totals, counts, loc) ==
    [i \in 1..Len(units) |->
        <<"Cost Unit", [unit  |-> units[i],
                        items |-> counts[units[i]],
                        total |-> FormatCost(loc, totals[units[i]])]>>]

\* Lines 136-160, and the return of main.  A cost unit that is a list or an
\* object cannot be a dict key: TypeError.
Breakdown ==
    /\ Running("breakdown")
    /\ IF \E i \in 1..Len(all_rows) : ~Hashable(UnitOf(all_rows[i]))
       THEN /\ Crash(<<>>, "TypeError")
            /\ UNCHANGED <<per_cost_unit, item_count_per_cost_unit,
                           unit_keys, sorted_units>>
       ELSE LET acc == Accumulate(EmptyAcc, all_rows)
                su  == SortUnits(acc.keys)
            IN  /\ per_cost_unit' = acc.totals
                /\ item_count_per_cost_unit' = acc.counts
                /\ unit_keys' = acc.keys
                /\ sorted_units' = su
                /\ out' = out \o
                          <<<<"=== BREAKDOWN BY COST UNIT ===", "">>>> \o
                          BreakdownLines(su, acc.totals, acc.counts, lc_all)
                /\ pc' = "exit"
                /\ exit_status' = 0
    /\ UNCHANGED <<argv_ok, dir_exists, file_pattern, dir, host_locales,
                   all_files, next_file, file_path, rows, all_rows,
                   grand_total_cost, lc_all>>

\* ------------------------------------------------------------------ inputs

NameLower == <<"a", "b">>

NameUpper == <<"A", "B", "1">>

NameMid == <<"x", "a", "B">>

NameOther == <<"b", "a">>

NameUniverse == {NameLower, NameUpper, NameMid, NameOther}

Patterns == {<<"a", "B">>, <<"B">>}

Locales == {"de_DE.UTF-8", "en_US.UTF-8"}

\* The largest power of two below which every whole number is a float.
Big == Pow2(MantBits)

RowA10 == JObj([id |-> JStr(<<"a">>), cost |-> JNum(1),
                cost_unit |-> JStr(<<"1", "0">>)])

RowA2 == JObj([id |-> JStr(<<"a">>), cost |-> JNum(Big),
               cost_unit |-> JStr(<<"2">>)])

RowBabc == JObj([id |-> JStr(<<"b">>), cost |-> JNum(1),
                 cost_unit |-> JStr(<<"a", "b", "c">>)])

RowBare == JObj(<<>>)

RowInf == JObj([id |-> JStr(<<>>), cost |-> JNum(1),
                cost_unit |-> JStr(<<"i", "n", "f">>)])

RowBadCost == JObj([id |-> JStr(<<"b">>), cost |-> JStr(<<"x">>),
                    cost_unit |-> JStr(<<"2">>)])

RowUniverse == {RowA10, RowA2, RowBabc, RowBare, RowInf, RowBadCost}

RowLists == UNION {[1..n -> RowUniverse] : n \in 0..MaxRows}

\* Shape (a) of the file format: {"Value": "<json of {"data": rows}>"}.
Wrapped(rs) ==
    FileOf(TextOf(JObj([Value |-> JStr(TextOf(JObj([data |-> JList(rs)])))])))

\* {"Value": "<text>", "data": outer} and {"Value": "<text>"}.
Envelope(text, outer) ==
    FileOf(TextOf(JObj([Value |-> JStr(text), data |-> outer])))

EnvelopeOnly(text) == FileOf(TextOf(JObj([Value |-> JStr(text)])))

\* One file for every branch of process_file, and data fields that are not
\* lists of mappings.
ShapeFiles ==
    { Unreadable,
      FileOf(BadText),
      FileOf(TextOf(JList(<<RowA10>>))),
      Envelope(BadText, JList(<<RowA10>>)),
      EnvelopeOnly(TextOf(JList(<<RowA10>>))),
      Envelope(TextOf(JObj(<<>>)), JList(<<RowA10>>)),
      EnvelopeOnly(TextOf(JObj([data |-> EmptyList]))),
      EnvelopeOnly(TextOf(JObj([data |-> JNull]))),
      EnvelopeOnly(TextOf(JObj([data |-> JNum(5)]))),
      Envelope(TextOf(JObj([data |-> JList(<<RowBabc>>)])), JList(<<RowA10>>)),
      EnvelopeOnly(TextOf(JObj([data |-> JList(<<JNum(5)>>)]))),
      FileOf(TextOf(JObj([Value |-> JNum(1), data |-> JList(<<RowA10>>)]))),
      FileOf(TextOf(JObj([data |-> JList(<<RowBabc>>)]))),
      FileOf(TextOf(JObj(<<>>))),
      FileOf(TextOf(JObj([data |-> JNull]))),
      FileOf(TextOf(JObj([data |-> JStr(<<"a", "b">>)]))) }

\* Six identifiers, each on two rows: more duplicates than DupCap.
ManyIds == <<"c", "d", "e", "f", "g", "h">>

ManyRows == [i \in 1..12 |->
    JObj([id |-> JStr(<<ManyIds[((i - 1) % 6) + 1]>>), cost |-> JNum(1)])]

\* The entries of the directories that vary in their names.
NameEntries == {SubDir, Wrapped(<<RowA10>>), Wrapped(<<>>)}

InitRun ==
    /\ pc = "args"
    /\ all_files = <<>>
    /\ next_file = 1
    /\ file_path = <<>>
    /\ rows = EmptyList
    /\ all_rows = <<>>
    /\ grand_total_cost = 0
    /\ per_cost_unit = <<>>
    /\ item_count_per_cost_unit = <<>>
    /\ unit_keys = <<>>
    /\ sorted_units = <<>>
    /\ lc_all = "C"
    /\ out = <<>>
    /\ exit_status = NotExited

\* Runs that stop before discovery: too few arguments, or no directory.
InitFatal ==
    /\ \/ argv_ok = FALSE /\ dir_exists \in BOOLEAN /\ file_pattern = <<>>
       \/ argv_ok = TRUE /\ dir_exists = FALSE /\ file_pattern \in Patterns
    /\ dir = <<>>
    /\ host_locales = Locales

\* Directories that vary in the names and kinds of their entries.
InitNames ==
    /\ argv_ok = TRUE
    /\ dir_exists = TRUE
    /\ file_pattern \in Patterns
    /\ \E S \in SUBSET NameUniverse :
        /\ Cardinality(S) <= MaxEntries
        /\ dir \in [S -> NameEntries]
    /\ host_locales \in SUBSET Locales

\* Two matching files that vary in the shape of their documents.
InitShapes ==
    /\ argv_ok = TRUE
    /\ dir_exists = TRUE
    /\ file_pattern = <<"a", "B">>
    /\ dir \in [{NameUpper, NameLower} -> ShapeFiles]
    /\ host_locales = Locales

\* Two matching files of shape (a) that vary in their rows.
InitRows ==
    /\ argv_ok = TRUE
    /\ dir_exists = TRUE
    /\ file_pattern = <<"a", "B">>
    /\ \E r1, r2 \in RowLists :
        dir = [n \in {NameUpper, NameLower} |->
                 IF n = NameUpper THEN Wrapped(r1) ELSE Wrapped(r2)]
    /\ host_locales = Locales

\* One file with many duplicated identifiers.
InitMany ==
    /\ argv_ok = TRUE
    /\ dir_exists = TRUE
    /\ file_pattern = <<"a", "B">>
    /\ dir = [n \in {NameLower} |-> Wrapped(ManyRows)]
    /\ host_locales = Locales

Init ==
    /\ InitRun
    /\ (InitFatal \/ InitNames \/ InitShapes \/ InitRows \/ InitMany)

Next ==
    \/ CheckArgs
    \/ CheckDir
    \/ Discover
    \/ ProcessFile
    \/ CheckRows
    \/ UniquenessCheck
    \/ GrandTotal
    \/ ReportTotal
    \/ Breakdown

Spec == Init /\ [][Next]_vars

\* ------------------------------------------------------------ properties

\* The run has printed a line with this tag.
Printed(tag) == \E i \in 1..Len(out) : out[i][1] = tag

\* The argument of the first line printed with this tag.
LineArg(tag) == out[CHOOSE i \in 1..Len(out) : out[i][1] = tag][2]

\* The run completed normally, after the breakdown.
Completed == pc = "exit" /\ exit_status = 0

\* The sum of the costs of rs as a real number, 0 where the field is absent.
RECURSIVE ExactCostSum(_)
ExactCostSum(rs) ==
    IF rs = <<>> THEN 0
    ELSE Get(Head(rs), "cost", JNum(0)).n + ExactCostSum(Tail(rs))

\* The sum of the values of a function over the set D, as a real number.
RECURSIVE ExactSumOver(_, _)
ExactSumOver(f, D) ==
    IF D = {} THEN 0
    ELSE LET d == CHOOSE e \in D : TRUE IN f[d] + ExactSumOver(f, D \ {d})

\* The float sum of the bucket totals, added in the order of `keys`.
RECURSIVE FloatSumOver(_, _)
FloatSumOver(f, keys) ==
    IF keys = <<>> THEN 0
    ELSE FAdd(FloatSumOver(f, SubSeq(keys, 1, Len(keys) - 1)),
              f[keys[Len(keys)]])

\* The rows of rs whose cost unit is u.
RowsOfUnit(rs, u) == SelectSeq(rs, LAMBDA r : UnitOf(r) = u)

\* Each row is in exactly one bucket: the buckets are the cost units of the
\* rows, and the count and the total of a bucket are those of its rows.
BucketsPartitionRows ==
    /\ DOMAIN per_cost_unit = {UnitOf(all_rows[i]) : i \in 1..Len(all_rows)}
    /\ DOMAIN item_count_per_cost_unit = DOMAIN per_cost_unit
    /\ \A u \in DOMAIN per_cost_unit :
        /\ item_count_per_cost_unit[u] = Len(RowsOfUnit(all_rows, u))
        /\ per_cost_unit[u] = SumCosts(0, RowsOfUnit(all_rows, u))
    /\ ExactSumOver(item_count_per_cost_unit, DOMAIN item_count_per_cost_unit)
         = Len(all_rows)

\* C1 as stated: after the breakdown, the bucket totals sum to the grand
\* total (as a real sum, or as a float sum in some order of the buckets), the
\* bucket counts sum to the row count, and each row is in exactly one bucket.
C1_AsStated ==
    Completed =>
        /\ BucketsPartitionRows
        /\ \/ ExactSumOver(per_cost_unit, DOMAIN per_cost_unit) = grand_total_cost
           \/ \E order \in Listings(DOMAIN per_cost_unit) :
                FloatSumOver(per_cost_unit, order) = grand_total_cost

\* C1 amended: after the breakdown, the bucket counts sum to the row count
\* and each row is in exactly one bucket, whose total is the float sum of its
\* rows' costs in row order; when the costs are non-negative whole numbers
\* that sum to at most 2^MantBits (no addition rounds), the bucket totals sum
\* to the grand total, and both are the exact sum of the costs.
C1_BucketsMatchTotal ==
    Completed =>
        /\ BucketsPartitionRows
        /\ ExactCostSum(all_rows) <= Big =>
            /\ ExactSumOver(per_cost_unit, DOMAIN per_cost_unit) = grand_total_cost
            /\ grand_total_cost = ExactCostSum(all_rows)

\* A completed run over three or more rows in two or more buckets, one of
\* them with two rows, whose costs add without rounding.
C1_Witness ==
    /\ Completed
    /\ Len(all_rows) >= 3
    /\ Cardinality(DOMAIN per_cost_unit) >= 2
    /\ \E u \in DOMAIN per_cost_unit : item_count_per_cost_unit[u] >= 2
    /\ grand_total_cost >= 3
    /\ ExactCostSum(all_rows) <= Big

\* The rows extracted from the files of `files`, processed in that order.
RECURSIVE ExtractedRows(_)
ExtractedRows(files) ==
    IF files = <<>> THEN <<>>
    ELSE Items(process_file(Head(files), dir[Head(files)]).rows)
         \o ExtractedRows(Tail(files))

\* The grand total has been computed.
TotalComputed == pc \in {"report", "breakdown"} \/ Completed

\* C2 as stated: the grand total is the sum of the costs of every row
\* extracted from every matched file, and is the same for every order in
\* which the matched files are processed.
C2_AsStated ==
    TotalComputed =>
        /\ grand_total_cost = ExactCostSum(ExtractedRows(all_files))
        /\ \A order \in Listings(SetOf(all_files)) :
              SumCosts(0, ExtractedRows(order)) = grand_total_cost

\* C2 amended: when the costs are non-negative whole numbers that sum to at
\* most 2^MantBits (no addition rounds), the grand total is the sum of the
\* costs of every row extracted from every matched file, and is the same for
\* every order in which the matched files are processed.
C2_TotalIsSum ==
    (TotalComputed /\ ExactCostSum(ExtractedRows(all_files)) <= Big) =>
        /\ grand_total_cost = ExactCostSum(ExtractedRows(all_files))
        /\ \A order \in Listings(SetOf(all_files)) :
              SumCosts(0, ExtractedRows(order)) = grand_total_cost

\* The total of two files with rows, one row without a cost field.
C2_Witness ==
    /\ pc = "report"
    /\ Len(all_files) = 2
    /\ \A i \in 1..2 : process_file(all_files[i], dir[all_files[i]]).rows # EmptyList
    /\ \E i \in 1..Len(all_rows) : "cost" \notin DOMAIN all_rows[i].fields
    /\ grand_total_cost >= 2
    /\ ExactCostSum(all_rows) <= Big

\* A file has been handed to process_file, and file_path names it.
FileProcessed == file_path # <<>>

\* The processing loop stopped on an exception raised in it.
LoopRaised == pc = "exit" /\ exit_status # 0 /\ next_file <= Len(all_files)

\* The document of a readable, well-formed file whose top level is an object.
IsEnvelope(f) == f.readable /\ f.text.valid /\ f.text.doc.t = "obj"

HasStringValue(f) ==
    /\ "Value" \in DOMAIN f.text.doc.fields
    /\ f.text.doc.fields["Value"].t = "str"

\* The payload the rows are looked up in: the document decoded from Value.
InnerText(f) == f.text.doc.fields["Value"].s

\* The data field of the payload of f is missing or empty: the payload is
\* the decoded Value where Value is a string that decodes to an object, and
\* the outer object where it has no string Value.
DataMissingOrEmpty(f) ==
    /\ IsEnvelope(f)
    /\ IF HasStringValue(f)
       THEN /\ InnerText(f).valid
            /\ InnerText(f).doc.t = "obj"
            /\ ("data" \in DOMAIN InnerText(f).doc.fields
                  => ~Truthy(InnerText(f).doc.fields["data"]))
       ELSE "data" \in DOMAIN f.text.doc.fields
              => ~Truthy(f.text.doc.fields["data"])

\* C3, for the files whose data field is missing or empty: process_file
\* yields an empty row list, nothing is raised in the processing loop, the
\* file contributes no row, and the loop goes on to the next file.
C3_AsStated ==
    (FileProcessed /\ DataMissingOrEmpty(dir[file_path])) =>
        /\ rows = EmptyList
        /\ ~LoopRaised

\* C4 as stated: when a file matched and a row was extracted, a run that
\* has ended has ended normally, with exit status 0 and the uniqueness,
\* grand-total and breakdown sections printed.
C4_AsStated ==
    (pc = "exit" /\ all_files # <<>> /\ all_rows # <<>>) =>
        /\ exit_status = 0
        /\ Printed("=== ID UNIQUENESS CHECK ===")
        /\ Printed("=== GRAND TOTAL COST ACROSS ALL FILES ===")
        /\ Printed("=== BREAKDOWN BY COST UNIT ===")

\* The two characters are the same letter in either case, or the same
\* character.
SameLetter(c, d) ==
    \/ c = d
    \/ {c, d} = {"A", "a"}
    \/ {c, d} = {"B", "b"}

\* The name contains the pattern when letter case is ignored.
ContainsIgnoringCase(pattern, name) ==
    \E k \in 0..(Len(name) - Len(pattern)) :
        \A i \in 1..Len(pattern) : SameLetter(pattern[i], name[k + i])

\* The entries discovery must return.
MatchingEntries ==
    {n \in DOMAIN dir :
        dir[n].isfile /\ ContainsIgnoringCase(file_pattern, n)}

LastLine == out[Len(out)][1]

\* None of the three report sections has been printed, and no aggregate has
\* been computed.
NoAggregation ==
    /\ ~Printed("=== ID UNIQUENESS CHECK ===")
    /\ ~Printed("=== GRAND TOTAL COST ACROSS ALL FILES ===")
    /\ ~Printed("=== BREAKDOWN BY COST UNIT ===")
    /\ grand_total_cost = 0
    /\ DOMAIN per_cost_unit = {}
    /\ pc \notin {"unique", "total", "report", "breakdown"}

\* C6: a missing directory, no matching file, or no extracted row ends the
\* run with a non-zero status, with the fatal message as its last line: with
\* no directory nothing is searched; with no matching file no file is
\* processed and nothing is aggregated; with no row no section is printed.
\* No stage after the processing loop is entered with no row, and none at
\* all once the run has ended.
C6_FatalStops ==
    /\ Printed("Error: Directory not found") =>
          /\ pc = "exit" /\ exit_status # 0
          /\ LastLine = "Error: Directory not found"
          /\ ~Printed("Searching") /\ ~Printed("Processing") /\ NoAggregation
    /\ (Printed("Searching") /\ all_files = <<>>) =>
          /\ pc = "exit" /\ exit_status # 0
          /\ LastLine = "No files matching pattern"
          /\ ~Printed("Processing") /\ all_rows = <<>> /\ NoAggregation
    /\ (Printed("Total cost items") /\ all_rows = <<>>) =>
          /\ pc = "exit" /\ exit_status # 0
          /\ LastLine = "No cost items found"
          /\ NoAggregation
    /\ ~dir_exists => ~Printed("Searching")
    /\ pc \in {"unique", "total", "report", "breakdown"} =>
          all_files # <<>> /\ all_rows # <<>>
    /\ pc = "exit" => ~ENABLED Next

\* Every matched file was processed, none had a row, and the run has ended.
C6_Witness ==
    /\ pc = "exit"
    /\ Len(all_files) = 2
    /\ next_file = 3
    /\ all_rows = <<>>
    /\ LastLine = "No cost items found"

\* The identifier of row i counts: the field is present and not falsy.
CountedId(i) ==
    /\ "id" \in DOMAIN all_rows[i].fields
    /\ Truthy(all_rows[i].fields["id"])

\* The rows whose identifier counts and equals x.
RowsWithId(x) ==
    {i \in 1..Len(all_rows) : CountedId(i) /\ all_rows[i].fields["id"] = x}

CountedIds == {all_rows[i].fields["id"] : i \in {j \in 1..Len(all_rows) : CountedId(j)}}

DuplicatedIds == {x \in CountedIds : Cardinality(RowsWithId(x)) > 1}

\* The lines of the uniqueness section that name one duplicate.
AppearLines == {i \in 1..Len(out) : out[i][1] = "ID appears"}

\* C7: the uniqueness section reports duplicates exactly when a present,
\* truthy identifier is on more than one row.  It then gives the number of
\* distinct such identifiers, the number of identifiers on more than one
\* row, and for each duplicate it names the number of rows it is on; each
\* duplicate is named at most once and only duplicates are named.  Otherwise
\* it reports success with the number of rows.  For the identifiers a, a, b
\* it gives 2, 1, and a on two rows.
C7_Uniqueness ==
    pc = "total" =>
        /\ Printed("Found duplicate IDs!") <=> DuplicatedIds # {}
        /\ Printed("All IDs are unique.") <=> DuplicatedIds = {}
        /\ DuplicatedIds # {} =>
            /\ LineArg("Total unique IDs") = Cardinality(CountedIds)
            /\ LineArg("Number of duplicate IDs") = Cardinality(DuplicatedIds)
            /\ LineArg("Total items") = Len(all_rows)
            /\ \A i \in AppearLines :
                /\ out[i][2][1] \in DuplicatedIds
                /\ out[i][2][2] = Cardinality(RowsWithId(out[i][2][1]))
                /\ \A j \in AppearLines : out[j][2][1] = out[i][2][1] => j = i
            /\ Cardinality(AppearLines) =
                 (IF Cardinality(DuplicatedIds) > DupCap
                  THEN DupCap ELSE Cardinality(DuplicatedIds))
        /\ DuplicatedIds = {} =>
            /\ LineArg("Total items processed") = Len(all_rows)
            /\ AppearLines = {}
        /\ IdsOf(all_rows) = <<JStr(<<"a">>), JStr(<<"a">>), JStr(<<"b">>)>> =>
            /\ LineArg("Total unique IDs") = 2
            /\ LineArg("Number of duplicate IDs") = 1
            /\ \E i \in AppearLines : out[i][2] = <<JStr(<<"a">>), 2>>

\* The section for the identifiers a, a, b and a row whose identifier is
\* absent or empty.
C7_Witness ==
    /\ pc = "total"
    /\ Len(all_rows) = 4
    /\ \E i \in 1..4 : ~CountedId(i)
    /\ \E i, j, k \in 1..4 :
        /\ i < j /\ j < k
        /\ CountedId(i) /\ CountedId(j) /\ CountedId(k)
        /\ all_rows[i].fields["id"] = JStr(<<"a">>)
        /\ all_rows[j].fields["id"] = JStr(<<"a">>)
        /\ all_rows[k].fields["id"] = JStr(<<"b">>)

\* The label of the unit parses as a number.
ParsesAsNumber(u) == float_of(u).ok

\* Position of the unit in a list that holds it once.
PosIn(seq, u) == CHOOSE i \in 1..Len(seq) : seq[i] = u

\* C8 as stated: in the breakdown every unit whose label parses as a number
\* comes before every unit whose label does not, the numeric units ascend by
\* value, the others keep their first-seen order, and each unit is there
\* once.
C8_AsStated ==
    Completed =>
        /\ Len(sorted_units) = Cardinality(DOMAIN per_cost_unit)
        /\ SetOf(sorted_units) = DOMAIN per_cost_unit
        /\ \A i, j \in 1..Len(sorted_units) :
            LET u == sorted_units[i]
                v == sorted_units[j]
            IN  /\ (ParsesAsNumber(u) /\ ~ParsesAsNumber(v)) => i < j
                /\ (ParsesAsNumber(u) /\ ParsesAsNumber(v) /\ i < j) =>
                      ~KeyLess(float_of(v).key, float_of(u).key)
                /\ (~ParsesAsNumber(u) /\ ~ParsesAsNumber(v) /\ i < j) =>
                      PosIn(unit_keys, u) < PosIn(unit_keys, v)

\* A file has a string Value, and the data field of what it decodes to.
InnerData(f) ==
    IF InnerText(f).valid /\ InnerText(f).doc.t = "obj"
       /\ "data" \in DOMAIN InnerText(f).doc.fields
    THEN InnerText(f).doc.fields["data"]
    ELSE EmptyList

OuterData(f) ==
    IF "data" \in DOMAIN f.text.doc.fields
    THEN f.text.doc.fields["data"]
    ELSE EmptyList

\* C9: for a file that parses to an object, the rows process_file returns
\* are the data field of the document decoded from Value when Value is a
\* string (empty when the field is absent or the string does not decode to
\* an object), whatever the outer data field holds; and the outer data field
\* (empty when absent) when Value is absent or not a string.
C9_PayloadByShape ==
    (FileProcessed /\ IsEnvelope(dir[file_path])) =>
        IF HasStringValue(dir[file_path])
        THEN rows = InnerData(dir[file_path])
        ELSE rows = OuterData(dir[file_path])

\* Both files have an outer data field with rows; the first has a string
\* Value too, whose payload gives other rows or none, and the second has a
\* Value that is not a string.
C9_Witness ==
    /\ next_file = 3
    /\ IsEnvelope(dir[all_files[1]])
    /\ HasStringValue(dir[all_files[1]])
    /\ "data" \in DOMAIN dir[all_files[1]].text.doc.fields
    /\ OuterData(dir[all_files[1]]) # InnerData(dir[all_files[1]])
    /\ IsEnvelope(dir[file_path])
    /\ "Value" \in DOMAIN dir[file_path].text.doc.fields
    /\ ~HasStringValue(dir[file_path])
    /\ rows = JList(<<RowA10>>)

\* C10: the report does not depend on the order in which the directory is
\* enumerated, and the run writes nothing.  Every order of enumeration gives
\* discovery the file list and the lines of the step taken; every other step
\* has one outcome, so the whole report is a function of the directory, the
\* pattern and the installed locales.  No step changes the directory.
C10_SameReport ==
    [][/\ dir' = dir
       /\ pc = "discover" =>
            \A listing \in Listings(DOMAIN dir) :
                LET found == DiscoverFiles(listing, dir, file_pattern) IN
                /\ all_files' = found
                /\ out' = out \o DiscoverLines(found, file_pattern)]_vars

\* Discovery has listed three files that can be enumerated in six orders.
C10_Witness ==
    /\ pc = "process"
    /\ next_file = 1
    /\ Len(all_files) = 3
    /\ Len(out) = 5

====
